---- MODULE Spec2Model ----
(***************************************************************************)
(* Model of the connection supervisor of nordmacpy (src/connection.py):    *)
(* open_vpn, the StreamWatcher thread, stop_process, _best_effort_cleanup  *)
(* and the command runner, together with the supervised process and the    *)
(* clock as environment.  Time is counted in whole seconds; a deadline     *)
(* "time.monotonic() + t" sampled once is a countdown that starts at t and *)
(* that Tick decrements, and "time.monotonic() >= deadline" is the         *)
(* countdown having reached 0.  A countdown whose deadline the code never  *)
(* reads again is set to 0 when its loop is left.                          *)
(*                                                                         *)
(* Each action is one statement, or one run of statements between which no *)
(* other thread can change what the statements read.  The sleeps of the    *)
(* polling loops are folded into the step before them: time passes by Tick *)
(* at any point.  The diagnostic commands decide nothing: _get_public_ip   *)
(* is followed only as far as its _run_cmd call can raise, and _snapshot,  *)
(* which runs under verbose only, is left out, as is the os.name == "nt"   *)
(* branch of _send_signal_to_process_group.                                *)
(*                                                                         *)
(* The specifications share the variables:                                 *)
(*   Spec         one open_vpn call (verbose = False, its default) with    *)
(*                its watcher thread and its process; the outcome of each  *)
(*                cleanup command is drawn freely and the host state `os`  *)
(*                that would decide it is not followed;                    *)
(*   StopSpec     a caller that holds a Popen handle and calls             *)
(*                stop_process on it, more than once;                      *)
(*   CleanupSpec  _best_effort_cleanup called repeatedly on a host whose   *)
(*                stray processes and def1 routes are followed in `os`;    *)
(*   WatcherSpec  one StreamWatcher, constructed with any keep_last_n and  *)
(*                verbose, on a stream that delivers several lines;        *)
(*   RunSpec      _run_cmd called repeatedly, in either check mode;        *)
(*   CloseSpec    a caller that holds a Popen handle and calls close_vpn;  *)
(*   ManagerSpec  a VpnManager (src/vpn_manager.py) whose connect_to_vpn   *)
(*                and disconnect are called in any order;                  *)
(*   FairStopSpec StopSpec with its steps scheduled and a delivered        *)
(*                SIGKILL eventually effective.                            *)
(*                                                                         *)
(* trace, obs, probeRun, lastProbe, preDenied, sent, stopRet, unchecked,   *)
(* clRun, calls, cmdLog and mgrCalls are history variables: the code does  *)
(* not read them.                                                          *)
(***************************************************************************)
EXTENDS Integers, Sequences, FiniteSets, TLC

VARIABLES
    pre_cleanup,      \* open_vpn argument
    post_init_probe,  \* open_vpn argument
    timeout_s,        \* open_vpn argument (seconds)
    probe_timeout_s,  \* open_vpn argument (seconds)
    pc,               \* position of the supervisor (open_vpn) in its code
    path,             \* which call site of stop_process/_best_effort_cleanup is active
    initLeft,         \* seconds left to `deadline` (line 451)
    probeLeft,        \* seconds left to `probe_deadline` (line 489)
    rc,               \* local rc of open_vpn: last proc.poll() result
    tail,             \* local tail of open_vpn
    last_reason,      \* local last_reason of open_vpn
    final_rc,         \* local final_rc of open_vpn, local rc of close_vpn
    result,           \* the OpenVpnResult returned, NoResult before
    procState,        \* the launched process: "none", "running", "exited"
    procRc,           \* its exit status once exited
    delivered,        \* signals delivered to it while it runs
    pipe,             \* lines written to its stdout and not yet read
    nWritten,         \* number of lines it has written
    wPc,              \* position of the StreamWatcher thread
    lines,            \* StreamWatcher.lines
    cur,              \* the line the watcher is handling
    init_event,       \* threading.Event "ready"
    exit_event,       \* threading.Event "exited"
    clStep,           \* next command of the running _best_effort_cleanup, 0 when none runs
    stPc,             \* position inside stop_process, "idle" when it does not run
    stStage,          \* rung of the signal ladder stop_process is on (1..3)
    graceLeft,        \* seconds left of the running proc.wait(timeout=...)
    sent,             \* history: signals the running stop_process has tried to send
    stopRet,          \* history: the value stop_process returned last
    trace,            \* history: the supervisor's calls, in order
    obs,              \* history: what the current poll iteration has observed
    probeRun,         \* history: _internet_probe_ok has been called
    lastProbe,        \* history: reason returned by the most recent probe call
    preDenied,        \* history: sudo -n refused every command of the pre-flight cleanup
    keep_last_n,      \* StreamWatcher.keep_last_n
    verbose,          \* StreamWatcher.verbose
    unchecked,        \* history: the line last appended has not been tested for the needle
    os,               \* the host: stray openvpn processes and def1 routes present
    clRun,            \* history: the commands the running cleanup has issued so far
    calls,            \* history: the completed _best_effort_cleanup calls, in order
    cmdLog,           \* history: the _run_cmd calls, the last one possibly running
    closeRet,         \* the value close_vpn returned last
    mgrProc,          \* VpnManager.proc: "None" or "handle"
    mgrPc,            \* position of the VpnManager method that runs, "idle" if none
    mgrCalls          \* history: connect_to_vpn and disconnect calls made

vars == << pre_cleanup, post_init_probe, timeout_s, probe_timeout_s, pc, path,
           initLeft, probeLeft, rc, tail, last_reason, final_rc, result,
           procState, procRc, delivered, pipe, nWritten, wPc, lines, cur,
           init_event, exit_event, clStep, stPc, stStage, graceLeft, sent, stopRet,
           trace, obs, probeRun, lastProbe, preDenied, keep_last_n, verbose,
           unchecked, os, clRun, calls, cmdLog, closeRet, mgrProc, mgrPc,
           mgrCalls >>

supVars == << pc, path, initLeft, probeLeft, rc, tail, last_reason, final_rc, result >>
argVars == << pre_cleanup, post_init_probe, timeout_s, probe_timeout_s >>
procVars == << procState, procRc, delivered, pipe, nWritten >>
watchVars == << wPc, lines, cur, init_event, exit_event >>
cleanVars == << clStep >>
stopVars == << stPc, stStage, graceLeft, sent, stopRet >>
histVars == << trace, obs, probeRun, lastProbe, preDenied >>
watchArgs == << keep_last_n, verbose >>
osVars == << os, clRun, calls >>
mgrVars == << mgrProc, mgrPc, mgrCalls >>
callVars == << cmdLog, closeRet, mgrVars >>

(* ------------------------------ bounds -------------------------------- *)
MaxTimeoutS == 1        \* timeout_s is drawn from 0..MaxTimeoutS
MaxProbeTimeoutS == 1   \* probe_timeout_s is drawn from 0..MaxProbeTimeoutS
MaxLines == 1           \* lines the process writes at most
KeepLastN == 1          \* keep_last_n of the watcher (300 in the program)

(* ------------------------- program constants -------------------------- *)
SigintGraceS == 5
SigtermGraceS == 3
SIGINT == 2
SIGTERM == 15
SIGKILL == 9
RcTimeout == 124
RcException == 127
NoRc == 999             \* stands for Python's None as an exit status

(* --------------------------- pure functions --------------------------- *)

\* Python's s[-n:]: the last n elements, and the whole list when n = 0.
LastN(s, n) ==
    IF n = 0 \/ Len(s) <= n THEN s ELSE SubSeq(s, Len(s) - n + 1, Len(s))

\* StreamWatcher.tail(): the snapshot taken under the lock.
TailOf(ls, keep) == LastN(ls, keep)

\* The body of the watcher's "with self._lock" block for one line.
AppendTrim(ls, line, keep) ==
    LET appended == Append(ls, line)
    IN  IF Len(appended) > keep * 2 THEN LastN(appended, keep) ELSE appended

\* What a command can do when run: exit 0, exit non-zero (with sudo -n
\* refusing as a case of its own), run into the timeout having written
\* nothing or having written output, or fail to start.
CmdOutcomes ==
    {"exit0", "exit1", "sudo_denied", "timeout", "timeout_output", "oserror"}

\* _looks_like_sudo_tty_problem on the output of an outcome.
LooksLikeSudoTtyProblem(o) == o = "sudo_denied"

\* _run_cmd: the (rc, out) returned, or the exception raised.  On a timeout
\* subprocess.run leaves the output captured so far in TimeoutExpired.stdout
\* as bytes (also with text=True), None if there was none: with output
\* captured, out += e.stdout (line 155) raises TypeError out of the handler,
\* in either mode, and nothing is returned.
RunCmd(o, check) ==
    CASE o = "timeout" ->
            [rc |-> RcTimeout, out |-> "[TIMEOUT]",
             raised |-> IF check THEN "RuntimeError" ELSE "none"]
      [] o = "timeout_output" ->
            [rc |-> NoRc, out |-> "none", raised |-> "TypeError"]
      [] o = "oserror" ->
            [rc |-> RcException, out |-> "[EXCEPTION]",
             raised |-> IF check THEN "OSError" ELSE "none"]
      [] OTHER ->
            LET code == IF o = "exit0" THEN 0 ELSE 1
            IN  [rc |-> code,
                 out |-> IF LooksLikeSudoTtyProblem(o) THEN "sudo-password" ELSE "output",
                 raised |-> IF check /\ code # 0 THEN "RuntimeError" ELSE "none"]

\* The default of the check parameter, which no cleanup step overrides.
DefaultCheck == FALSE

\* _sudo_cmd: _run_cmd on "sudo -n <cmd>".
SudoCmd(o, check) == RunCmd(o, check)

\* The commands of _kill_openvpn, _flush_dns and _delete_def1_routes, in the
\* order _best_effort_cleanup issues them.
CleanupCmds ==
    << "cleanup-pkill-term", "cleanup-pkill-kill", "cleanup-dnsflush",
       "cleanup-mdns", "cleanup-route-0/1", "cleanup-route-128/1" >>

\* The two def1 split-default routes _delete_def1_routes removes.
Def1Routes == {"0.0.0.0/1", "128.0.0.0/1"}

\* A host with no stray openvpn process and neither def1 route.
CleanHost == [strays |-> FALSE, routes |-> {}]

\* The route a route-delete command names, "none" for the other commands.
RouteOf(cmd) ==
    IF cmd = "cleanup-route-0/1" THEN "0.0.0.0/1"
    ELSE IF cmd = "cleanup-route-128/1" THEN "128.0.0.0/1"
    ELSE "none"

\* Whether command cmd can end with outcome o on host h: pkill exits 0 only
\* if a process matched, route delete only if the route was in the table.
Possible(cmd, o, h) ==
    IF o # "exit0" THEN TRUE
    ELSE IF cmd \in {"cleanup-pkill-term", "cleanup-pkill-kill"} THEN h.strays
    ELSE IF RouteOf(cmd) # "none" THEN RouteOf(cmd) \in h.routes
    ELSE TRUE

\* The hosts command cmd can leave behind when it ends with outcome o on
\* host h: SIGKILL ends the strays, SIGTERM may or may not, a route delete
\* removes its route, and a command that did not exit 0 changed nothing.
Effects(cmd, o, h) ==
    IF o # "exit0" THEN {h}
    ELSE IF cmd = "cleanup-pkill-kill" THEN {[h EXCEPT !.strays = FALSE]}
    ELSE IF cmd = "cleanup-pkill-term" THEN {h, [h EXCEPT !.strays = FALSE]}
    ELSE {[h EXCEPT !.routes = h.routes \ {RouteOf(cmd)}]}

\* No cleanup has been started.
NoRun == [issued |-> << >>, failed |-> {}, before |-> CleanHost]

\* _route_uses_utun: the route command exited 0 and its output names a utun
\* interface (utun); any other outcome that returns gives False.
RouteUsesUtun(o, utun) == RunCmd(o, FALSE).rc = 0 /\ utun

\* _get_public_ip raises what its _run_cmd call raises.
GetPublicIpRaises(o) == RunCmd(o, FALSE).raised # "none"

\* _internet_probe_ok: route check first, then the two TCP targets in order.
InternetProbeOk(require_vpn_route, routeUtun, tcp1, tcp2) ==
    IF require_vpn_route /\ ~routeUtun
    THEN [ok |-> FALSE, reason |-> "route-to-1.1.1.1-not-utun"]
    ELSE IF ~tcp1 THEN [ok |-> FALSE, reason |-> "tcp-connect-failed api.ipify.org:443"]
    ELSE IF ~tcp2 THEN [ok |-> FALSE, reason |-> "tcp-connect-failed 1.1.1.1:443"]
    ELSE [ok |-> TRUE, reason |-> "probe-ok"]

\* proc.poll(): the exit status if the process has exited, None otherwise.
Poll == IF procState = "exited" THEN procRc ELSE NoRc

\* The signal ladder of stop_process.
Ladder == << SIGINT, SIGTERM, SIGKILL >>

\* The timeout of the proc.wait that follows each rung (0: no timeout).
GraceOf(stage) ==
    IF stage = 1 THEN SigintGraceS ELSE IF stage = 2 THEN SigtermGraceS ELSE 0

\* The reason tag of the result each failure path returns.
ReasonOf(p) ==
    CASE p = "pre" -> "cleanup-failed"
      [] p = "early" -> "openvpn-exited-early"
      [] p = "timeout" -> "timeout-waiting-init"
      [] p = "after_init" -> "exited-after-init"
      [] p = "died" -> "died-during-probe"
      [] OTHER -> "init-seen-but-probe-failed"

NoResult ==
    [ok |-> FALSE, proc |-> "None", reason |-> "none", rc |-> NoRc,
     last |-> "none", tail |-> << >>]

Event(e) == [e |-> e, alive |-> procState = "running"]

NoObs ==
    [ready |-> FALSE, alive |-> FALSE, expired |-> FALSE, probed |-> FALSE,
     route |-> FALSE, sameTick |-> FALSE]

\* No _run_cmd call has been logged, close_vpn has not returned, and no
\* VpnManager method runs on a manager that holds no handle.
IdleCallers ==
    /\ cmdLog = << >>
    /\ closeRet = NoRc
    /\ mgrProc = "None"
    /\ mgrPc = "idle"
    /\ mgrCalls = 0

(* ------------------------------- Init --------------------------------- *)
Init ==
    /\ pre_cleanup \in BOOLEAN
    /\ post_init_probe \in BOOLEAN
    /\ timeout_s \in 0..MaxTimeoutS
    /\ probe_timeout_s \in 0..MaxProbeTimeoutS
    /\ pc = "Start"
    /\ path = "none"
    /\ initLeft = 0
    /\ probeLeft = 0
    /\ rc = NoRc
    /\ tail = << >>
    /\ last_reason = "none"
    /\ final_rc = NoRc
    /\ result = NoResult
    /\ procState = "none"
    /\ procRc = NoRc
    /\ delivered = {}
    /\ pipe = << >>
    /\ nWritten = 0
    /\ wPc = "unstarted"
    /\ lines = << >>
    /\ cur = [id |-> 0, m |-> FALSE]
    /\ init_event = FALSE
    /\ exit_event = FALSE
    /\ clStep = 0
    /\ stPc = "idle"
    /\ stStage = 1
    /\ graceLeft = 0
    /\ sent = << >>
    /\ stopRet = NoRc
    /\ trace = << >>
    /\ obs = NoObs
    /\ probeRun = FALSE
    /\ lastProbe = "none"
    /\ preDenied = FALSE
    /\ keep_last_n = KeepLastN
    /\ verbose = FALSE
    /\ unchecked = FALSE
    /\ os = CleanHost
    /\ clRun = NoRun
    /\ calls = << >>
    /\ IdleCallers

(* ------------------------ supervisor: open_vpn ------------------------ *)

\* FailureResult with the handle left in the result of the timeout path.
FailureResultKeepsProc(p) ==
    [ok |-> FALSE, proc |-> IF p = "timeout" THEN "handle" ELSE "None",
     reason |-> ReasonOf(p),
     rc |-> IF p \in {"timeout", "probe_failed"} THEN final_rc
            ELSE IF p = "pre" THEN NoRc ELSE rc,
     last |-> IF p = "probe_failed" THEN last_reason ELSE "none",
     tail |-> tail]

\* FailureResult reporting the last poll result on every path.
FailureResultUsesRc(p) ==
    [ok |-> FALSE, proc |-> "None", reason |-> ReasonOf(p),
     rc |-> IF p = "pre" THEN NoRc ELSE rc,
     last |-> IF p = "probe_failed" THEN last_reason ELSE "none",
     tail |-> tail]

\* The OpenVpnResult of a failure return on path p.
FailureResult(p) ==
    [ok |-> FALSE, proc |-> "None", reason |-> ReasonOf(p),
     rc |-> IF p \in {"timeout", "probe_failed"} THEN final_rc
            ELSE IF p = "pre" THEN NoRc ELSE rc,
     last |-> IF p = "probe_failed" THEN last_reason ELSE "none",
     tail |-> tail]

\* The OpenVpnResult of a success return.
SuccessResult(reason) ==
    [ok |-> TRUE, proc |-> "handle", reason |-> reason, rc |-> NoRc,
     last |-> "none", tail |-> << >>]

\* Entering _best_effort_cleanup from the call site of path p.
BeginCleanup(p) ==
    /\ pc' = "Cleanup"
    /\ path' = p
    /\ clStep' = 1
    /\ trace' = Append(trace, Event("cleanup_begin"))

\* Entering stop_process from the call site of path p.
BeginStop(p) ==
    /\ pc' = "Stop"
    /\ path' = p
    /\ stPc' = "poll"
    /\ stStage' = 1
    /\ graceLeft' = 0
    /\ sent' = << >>
    /\ UNCHANGED stopRet
    /\ trace' = Append(trace, Event("stop_call"))

\* Start that launches without the pre-flight cleanup.
StartSkipsPreCleanup ==
    /\ pc = "Start"
    /\ pc' = "Launch"
    /\ UNCHANGED << path, clStep, trace >>
    /\ UNCHANGED << watchArgs, unchecked, osVars, callVars >>
    /\ UNCHANGED << argVars, initLeft, probeLeft, rc, tail, last_reason, final_rc,
                    result, procVars, watchVars, stopVars, obs, probeRun,
                    lastProbe, preDenied >>

\* open_vpn up to the pre-flight cleanup decision: the baseline
\* _get_public_ip, whose exception leaves open_vpn, then pre_cleanup.
Start ==
    /\ pc = "Start"
    /\ \E ipCmd \in CmdOutcomes :
         IF GetPublicIpRaises(ipCmd)
         THEN /\ pc' = "Raised"
              /\ UNCHANGED << path, clStep, trace >>
         ELSE IF pre_cleanup
         THEN /\ BeginCleanup("pre")
         ELSE /\ pc' = "Launch"
              /\ UNCHANGED << path, clStep, trace >>
    /\ UNCHANGED << watchArgs, unchecked, osVars, callVars >>
    /\ UNCHANGED << argVars, initLeft, probeLeft, rc, tail, last_reason, final_rc,
                    result, procVars, watchVars, stopVars, obs, probeRun,
                    lastProbe, preDenied >>

\* subprocess.Popen succeeds; the watcher is started and the deadline sampled.
Launch ==
    /\ pc = "Launch"
    /\ procState' = "running"
    /\ wPc' = "read"
    /\ initLeft' = timeout_s
    /\ pc' = "WaitInitReady"
    /\ trace' = Append(trace, [e |-> "launch", alive |-> TRUE])
    /\ UNCHANGED << watchArgs, unchecked, osVars, callVars >>
    /\ UNCHANGED << argVars, path, probeLeft, rc, tail, last_reason, final_rc,
                    result, procRc, delivered, pipe, nWritten, lines, cur,
                    init_event, exit_event, cleanVars, stopVars, obs, probeRun,
                    lastProbe, preDenied >>

\* subprocess.Popen raises (sudo cannot be executed): open_vpn raises.
LaunchRaises ==
    /\ pc = "Launch"
    /\ pc' = "Raised"
    /\ UNCHANGED << watchArgs, unchecked, osVars, callVars >>
    /\ UNCHANGED << argVars, path, initLeft, probeLeft, rc, tail, last_reason,
                    final_rc, result, procVars, watchVars, cleanVars, stopVars,
                    histVars >>

\* WaitInitReady that looks at the exit status before the ready flag.
WaitInitReadyExitFirst ==
    /\ pc = "WaitInitReady"
    /\ obs' = [NoObs EXCEPT !.ready = init_event,
                         !.sameTick = (procState = "exited" /\ initLeft = 0)]
    /\ IF procState = "exited"
       THEN pc' = "WaitInitPoll" /\ UNCHANGED initLeft
       ELSE IF init_event
       THEN pc' = "PostInitCheck" /\ initLeft' = 0
       ELSE pc' = "WaitInitPoll" /\ UNCHANGED initLeft
    /\ UNCHANGED << watchArgs, unchecked, osVars, callVars >>
    /\ UNCHANGED << argVars, path, probeLeft, rc, tail, last_reason, final_rc,
                    result, procVars, watchVars, cleanVars, stopVars, trace,
                    probeRun, lastProbe, preDenied >>

\* WaitInitReady that clears the ready flag once it has seen it set.
WaitInitReadyClears ==
    /\ pc = "WaitInitReady"
    /\ obs' = [NoObs EXCEPT !.ready = init_event,
                         !.sameTick = (procState = "exited" /\ initLeft = 0)]
    /\ IF init_event
       THEN pc' = "PostInitCheck" /\ initLeft' = 0
       ELSE pc' = "WaitInitPoll" /\ UNCHANGED initLeft
    /\ init_event' = FALSE
    /\ UNCHANGED << watchArgs, unchecked, osVars, callVars >>
    /\ UNCHANGED << argVars, path, probeLeft, rc, tail, last_reason, final_rc,
                    result, procVars, wPc, lines, cur, exit_event, cleanVars,
                    stopVars, trace, probeRun, lastProbe, preDenied >>

\* WAIT_INIT, first test of an iteration: init_event.is_set().
WaitInitReady ==
    /\ pc = "WaitInitReady"
    /\ obs' = [NoObs EXCEPT !.ready = init_event,
                         !.sameTick = (procState = "exited" /\ initLeft = 0)]
    /\ IF init_event
       THEN pc' = "PostInitCheck" /\ initLeft' = 0
       ELSE pc' = "WaitInitPoll" /\ UNCHANGED initLeft
    /\ UNCHANGED << watchArgs, unchecked, osVars, callVars >>
    /\ UNCHANGED << argVars, path, probeLeft, rc, tail, last_reason, final_rc,
                    result, procVars, watchVars, cleanVars, stopVars, trace,
                    probeRun, lastProbe, preDenied >>

\* WAIT_INIT, second test: proc.poll().
WaitInitPoll ==
    /\ pc = "WaitInitPoll"
    /\ rc' = Poll
    /\ obs' = [obs EXCEPT !.alive = (Poll = NoRc)]
    /\ IF Poll # NoRc
       THEN pc' = "Tail" /\ path' = "early" /\ initLeft' = 0
       ELSE pc' = "WaitInitDeadline" /\ UNCHANGED << path, initLeft >>
    /\ UNCHANGED << watchArgs, unchecked, osVars, callVars >>
    /\ UNCHANGED << argVars, probeLeft, tail, last_reason, final_rc, result,
                    procVars, watchVars, cleanVars, stopVars, trace, probeRun,
                    lastProbe, preDenied >>

\* WAIT_INIT, third test: the deadline; otherwise sleep and iterate.
WaitInitDeadline ==
    /\ pc = "WaitInitDeadline"
    /\ obs' = [obs EXCEPT !.expired = (initLeft = 0)]
    /\ IF initLeft = 0
       THEN pc' = "Tail" /\ path' = "timeout"
       ELSE pc' = "WaitInitReady" /\ UNCHANGED path
    /\ UNCHANGED << watchArgs, unchecked, osVars, callVars >>
    /\ UNCHANGED << argVars, initLeft, probeLeft, rc, tail, last_reason, final_rc,
                    result, procVars, watchVars, cleanVars, stopVars, trace,
                    probeRun, lastProbe, preDenied >>

\* PostInitCheck without the liveness re-check.
PostInitCheckNoPoll ==
    /\ pc = "PostInitCheck"
    /\ obs' = [obs EXCEPT !.alive = TRUE]
    /\ IF post_init_probe
       THEN /\ pc' = "ProbeTest"
            /\ probeLeft' = probe_timeout_s
            /\ last_reason' = "probe-not-run"
            /\ UNCHANGED << path, result, trace >>
       ELSE /\ pc' = "Done"
            /\ result' = SuccessResult("initialized")
            /\ trace' = Append(trace, Event("return"))
            /\ UNCHANGED << path, probeLeft, last_reason >>
    /\ UNCHANGED << watchArgs, unchecked, osVars, callVars >>
    /\ UNCHANGED << argVars, initLeft, rc, tail, final_rc, procVars, watchVars,
                    cleanVars, stopVars, probeRun, lastProbe, preDenied >>

\* POST_INIT_CHECK: one more poll, then the probe loop or the success return.
PostInitCheck ==
    /\ pc = "PostInitCheck"
    /\ rc' = Poll
    /\ obs' = [obs EXCEPT !.alive = (Poll = NoRc)]
    /\ IF Poll # NoRc
       THEN /\ pc' = "Tail" /\ path' = "after_init"
            /\ UNCHANGED << probeLeft, last_reason, result, trace >>
       ELSE IF post_init_probe
       THEN /\ pc' = "ProbeTest"
            /\ probeLeft' = probe_timeout_s
            /\ last_reason' = "probe-not-run"
            /\ UNCHANGED << path, result, trace >>
       ELSE /\ pc' = "Done"
            /\ result' = SuccessResult("initialized")
            /\ trace' = Append(trace, Event("return"))
            /\ UNCHANGED << path, probeLeft, last_reason >>
    /\ UNCHANGED << watchArgs, unchecked, osVars, callVars >>
    /\ UNCHANGED << argVars, initLeft, tail, final_rc, procVars, watchVars,
                    cleanVars, stopVars, probeRun, lastProbe, preDenied >>

\* PROBE, the loop test: time.monotonic() < probe_deadline.
ProbeTest ==
    /\ pc = "ProbeTest"
    /\ IF probeLeft > 0
       THEN pc' = "ProbePoll" /\ obs' = NoObs /\ UNCHANGED path
       ELSE pc' = "Tail" /\ path' = "probe_failed"
                         /\ obs' = [obs EXCEPT !.expired = TRUE]
    /\ UNCHANGED << watchArgs, unchecked, osVars, callVars >>
    /\ UNCHANGED << argVars, initLeft, probeLeft, rc, tail, last_reason, final_rc,
                    result, procVars, watchVars, cleanVars, stopVars, trace,
                    probeRun, lastProbe, preDenied >>

\* ProbePoll that runs the probe whatever the poll returned.
ProbePollIgnoresExit ==
    /\ pc = "ProbePoll"
    /\ rc' = Poll
    /\ obs' = [obs EXCEPT !.alive = (Poll = NoRc)]
    /\ pc' = "ProbeCall"
    /\ UNCHANGED << path, probeLeft >>
    /\ UNCHANGED << watchArgs, unchecked, osVars, callVars >>
    /\ UNCHANGED << argVars, initLeft, tail, last_reason, final_rc, result,
                    procVars, watchVars, cleanVars, stopVars, trace, probeRun,
                    lastProbe, preDenied >>

\* PROBE, first step of an iteration: proc.poll().
ProbePoll ==
    /\ pc = "ProbePoll"
    /\ rc' = Poll
    /\ obs' = [obs EXCEPT !.alive = (Poll = NoRc)]
    /\ IF Poll # NoRc
       THEN pc' = "Tail" /\ path' = "died" /\ probeLeft' = 0
       ELSE pc' = "ProbeCall" /\ UNCHANGED << path, probeLeft >>
    /\ UNCHANGED << watchArgs, unchecked, osVars, callVars >>
    /\ UNCHANGED << argVars, initLeft, tail, last_reason, final_rc, result,
                    procVars, watchVars, cleanVars, stopVars, trace, probeRun,
                    lastProbe, preDenied >>

\* ProbeCall that never stores the probe's reason in last_reason.
ProbeCallKeepsReason ==
    /\ pc = "ProbeCall"
    /\ \E routeUtun \in BOOLEAN, tcp1 \in BOOLEAN, tcp2 \in BOOLEAN :
         LET r == InternetProbeOk(TRUE, routeUtun, tcp1, tcp2)
         IN  /\ probeRun' = TRUE
             /\ lastProbe' = r.reason
             /\ obs' = [obs EXCEPT !.probed = TRUE, !.route = routeUtun]
             /\ IF r.ok
                THEN /\ pc' = "Done"
                     /\ result' = SuccessResult("initialized+probe-ok")
                     /\ trace' = Append(trace, Event("return"))
                     /\ probeLeft' = 0
                     /\ UNCHANGED last_reason
                ELSE /\ pc' = "ProbeTest"
                     /\ UNCHANGED << last_reason, result, trace, probeLeft >>
    /\ UNCHANGED << watchArgs, unchecked, osVars, callVars >>
    /\ UNCHANGED << argVars, path, initLeft, rc, tail, final_rc, procVars,
                    watchVars, cleanVars, stopVars, preDenied >>

\* ProbeCall that runs the cleanup before its success return.
ProbeCallCleansBeforeReturn ==
    /\ pc = "ProbeCall"
    /\ \E routeCmd \in CmdOutcomes, utun \in BOOLEAN, tcp1 \in BOOLEAN,
          tcp2 \in BOOLEAN, ipCmd \in CmdOutcomes :
         LET routeUtun == RouteUsesUtun(routeCmd, utun)
             r == InternetProbeOk(TRUE, routeUtun, tcp1, tcp2)
             raises == IF RunCmd(routeCmd, FALSE).raised # "none" THEN TRUE
                       ELSE r.ok /\ GetPublicIpRaises(ipCmd)
         IN  /\ probeRun' = TRUE
             /\ IF raises
                THEN /\ pc' = "Raised"
                     /\ probeLeft' = 0
                     /\ UNCHANGED << lastProbe, obs, last_reason, result, trace >>
                ELSE IF r.ok
                THEN /\ pc' = "Done"
                     /\ lastProbe' = r.reason
                     /\ obs' = [obs EXCEPT !.probed = TRUE, !.route = routeUtun]
                     /\ result' = SuccessResult("initialized+probe-ok")
                     /\ trace' = trace \o << Event("cleanup_begin"),
                                           Event("cleanup_end"), Event("return") >>
                     /\ probeLeft' = 0
                     /\ UNCHANGED last_reason
                ELSE /\ pc' = "ProbeTest"
                     /\ lastProbe' = r.reason
                     /\ obs' = [obs EXCEPT !.probed = TRUE, !.route = routeUtun]
                     /\ last_reason' = r.reason
                     /\ UNCHANGED << result, trace, probeLeft >>
    /\ UNCHANGED << watchArgs, unchecked, osVars, callVars >>
    /\ UNCHANGED << argVars, path, initLeft, rc, tail, final_rc, procVars,
                    watchVars, cleanVars, stopVars, preDenied >>

\* PROBE, second step: _internet_probe_ok(require_vpn_route=True), then the
\* success return after _get_public_ip, or last_reason, the sleep and the
\* next loop test.  An exception of the route command or of _get_public_ip
\* leaves open_vpn, with the process running and nothing returned.
ProbeCall ==
    /\ pc = "ProbeCall"
    /\ \E routeCmd \in CmdOutcomes, utun \in BOOLEAN, tcp1 \in BOOLEAN,
          tcp2 \in BOOLEAN, ipCmd \in CmdOutcomes :
         LET routeUtun == RouteUsesUtun(routeCmd, utun)
             r == InternetProbeOk(TRUE, routeUtun, tcp1, tcp2)
             raises == IF RunCmd(routeCmd, FALSE).raised # "none" THEN TRUE
                       ELSE r.ok /\ GetPublicIpRaises(ipCmd)
         IN  /\ probeRun' = TRUE
             /\ IF raises
                THEN /\ pc' = "Raised"
                     /\ probeLeft' = 0
                     /\ UNCHANGED << lastProbe, obs, last_reason, result, trace >>
                ELSE IF r.ok
                THEN /\ pc' = "Done"
                     /\ lastProbe' = r.reason
                     /\ obs' = [obs EXCEPT !.probed = TRUE, !.route = routeUtun]
                     /\ result' = SuccessResult("initialized+probe-ok")
                     /\ trace' = Append(trace, Event("return"))
                     /\ probeLeft' = 0
                     /\ UNCHANGED last_reason
                ELSE /\ pc' = "ProbeTest"
                     /\ lastProbe' = r.reason
                     /\ obs' = [obs EXCEPT !.probed = TRUE, !.route = routeUtun]
                     /\ last_reason' = r.reason
                     /\ UNCHANGED << result, trace, probeLeft >>
    /\ UNCHANGED << watchArgs, unchecked, osVars, callVars >>
    /\ UNCHANGED << argVars, path, initLeft, rc, tail, final_rc, procVars,
                    watchVars, cleanVars, stopVars, preDenied >>

\* TakeTail that goes to the cleanup on every path, without stop_process.
TakeTailNoStop ==
    /\ pc = "Tail"
    /\ tail' = TailOf(lines, keep_last_n)
    /\ BeginCleanup(path) /\ UNCHANGED stopVars
    /\ UNCHANGED << watchArgs, unchecked, osVars, callVars >>
    /\ UNCHANGED << argVars, initLeft, probeLeft, rc, last_reason, final_rc,
                    result, procVars, watchVars, obs, probeRun, lastProbe,
                    preDenied >>

\* tail = watcher.tail() on a failure path, then stop_process (timeout and
\* probe-failed paths) or _best_effort_cleanup (the others).
TakeTail ==
    /\ pc = "Tail"
    /\ tail' = TailOf(lines, keep_last_n)
    /\ IF path \in {"timeout", "probe_failed"}
       THEN BeginStop(path) /\ UNCHANGED cleanVars
       ELSE BeginCleanup(path) /\ UNCHANGED stopVars
    /\ UNCHANGED << watchArgs, unchecked, osVars, callVars >>
    /\ UNCHANGED << argVars, initLeft, probeLeft, rc, last_reason, final_rc,
                    result, procVars, watchVars, obs, probeRun, lastProbe,
                    preDenied >>

(* -------------------- _best_effort_cleanup, stepwise ------------------ *)

\* _best_effort_cleanup returns (ok, reason) to the call site of `path`:
\* close_vpn ignores the value and returns its rc; open_vpn launches after a
\* pre-flight cleanup that reported ok and returns a failure otherwise.
CleanupReturns(ok, denied) ==
    /\ clStep' = 0
    /\ preDenied' = denied
    /\ IF path = "close"
       THEN /\ pc' = "Caller"
            /\ closeRet' = final_rc
            /\ trace' = Append(Append(trace, Event("cleanup_end")),
                               Event("close_return"))
            /\ UNCHANGED result
       ELSE IF path = "pre" /\ ok
       THEN /\ pc' = "Launch"
            /\ trace' = Append(trace, Event("cleanup_end"))
            /\ UNCHANGED << result, closeRet >>
       ELSE /\ pc' = "Done"
            /\ result' = FailureResult(path)
            /\ trace' = Append(Append(trace, Event("cleanup_end")), Event("return"))
            /\ UNCHANGED closeRet

\* One command of the cleanup: CleanupCmds[clStep] through _sudo_cmd with the
\* default check mode; after the last one the routine returns (True, ...),
\* a RuntimeError from a step makes it return (False, "cleanup-failed: ..."),
\* and any other exception leaves the routine and its caller.
CleanupStep ==
    /\ pc = "Cleanup"
    /\ clStep \in 1..Len(CleanupCmds)
    /\ \E o \in CmdOutcomes :
         LET r == SudoCmd(o, DefaultCheck)
             denied == /\ path = "pre"
                       /\ clStep = 1 \/ preDenied
                       /\ o = "sudo_denied"
         IN  IF r.raised = "RuntimeError"
             THEN CleanupReturns(FALSE, denied)
             ELSE IF r.raised # "none"
             THEN /\ pc' = "Raised"
                  /\ clStep' = 0
                  /\ UNCHANGED << preDenied, result, trace, closeRet >>
             ELSE IF clStep = Len(CleanupCmds)
             THEN CleanupReturns(TRUE, denied)
             ELSE /\ clStep' = clStep + 1
                  /\ preDenied' = denied
                  /\ UNCHANGED << pc, result, trace, closeRet >>
    /\ UNCHANGED << watchArgs, unchecked, osVars, cmdLog, mgrVars >>
    /\ UNCHANGED << argVars, path, initLeft, probeLeft, rc, tail, last_reason,
                    final_rc, procVars, watchVars, stopVars, obs, probeRun,
                    lastProbe >>

(* --------------------------- stop_process ----------------------------- *)

\* StopReturns that hands v back without the cleanup that follows the call.
StopReturnsToCaller(v) ==
    /\ stopRet' = v
    /\ stPc' = "idle"
    /\ graceLeft' = 0
    /\ sent' = << >>
    /\ pc' = "Caller"
    /\ trace' = Append(trace, Event("stop_return"))
    /\ UNCHANGED << final_rc, clStep >>

\* stop_process returns v to its call site: open_vpn and close_vpn store it
\* (final_rc, rc) and run the cleanup; a direct caller just has the value.
StopReturns(v) ==
    /\ stopRet' = v
    /\ stPc' = "idle"
    /\ graceLeft' = 0
    /\ sent' = << >>
    /\ IF path = "direct"
       THEN /\ pc' = "Caller"
            /\ trace' = Append(trace, Event("stop_return"))
            /\ UNCHANGED << final_rc, clStep >>
       ELSE /\ final_rc' = v
            /\ pc' = "Cleanup"
            /\ clStep' = 1
            /\ trace' = Append(Append(trace, Event("stop_return")),
                               Event("cleanup_begin"))

\* StopPoll that goes on to the signals whatever poll() returned.
StopPollAlwaysSignals ==
    /\ pc = "Stop"
    /\ stPc = "poll"
    /\ stPc' = "group"
    /\ UNCHANGED << final_rc, graceLeft, pc, clStep, trace, stStage, sent, stopRet >>
    /\ UNCHANGED << watchArgs, unchecked, osVars, callVars >>
    /\ UNCHANGED << argVars, path, initLeft, probeLeft, rc, tail, last_reason,
                    result, procVars, watchVars, obs, probeRun, lastProbe,
                    preDenied >>

\* rc = proc.poll(); return it if the process has already exited.
StopPoll ==
    /\ pc = "Stop"
    /\ stPc = "poll"
    /\ IF Poll # NoRc
       THEN StopReturns(Poll) /\ UNCHANGED stStage
       ELSE /\ stPc' = "group"
            /\ UNCHANGED << final_rc, graceLeft, pc, clStep, trace,
                            stStage, sent, stopRet >>
    /\ UNCHANGED << watchArgs, unchecked, osVars, callVars >>
    /\ UNCHANGED << argVars, path, initLeft, probeLeft, rc, tail, last_reason,
                    result, procVars, watchVars, obs, probeRun, lastProbe,
                    preDenied >>

\* _send_signal_to_process_group(proc, Ladder[stStage]): delivered, or raises.
StopGroup ==
    /\ pc = "Stop"
    /\ stPc = "group"
    /\ \E ok \in BOOLEAN :
         /\ sent' = Append(sent, [sig |-> Ladder[stStage], how |-> "group", ok |-> ok])
         /\ IF ok
            THEN /\ stPc' = "wait"
                 /\ graceLeft' = GraceOf(stStage)
                 /\ delivered' = IF procState = "running"
                                 THEN delivered \cup {Ladder[stStage]} ELSE {}
            ELSE /\ stPc' = "fallback"
                 /\ UNCHANGED << graceLeft, delivered >>
    /\ UNCHANGED << watchArgs, unchecked, osVars, callVars >>
    /\ UNCHANGED << argVars, supVars, procState, procRc, pipe, nWritten,
                    watchVars, cleanVars, stStage, stopRet, histVars >>

\* The fallback proc.send_signal / terminate / kill: nothing is sent to a
\* process found exited; otherwise delivered, or raises and is swallowed.
StopFallback ==
    /\ pc = "Stop"
    /\ stPc = "fallback"
    /\ stPc' = "wait"
    /\ graceLeft' = GraceOf(stStage)
    /\ IF procState = "exited"
       THEN UNCHANGED << sent, delivered >>
       ELSE \E ok \in BOOLEAN :
              /\ sent' = Append(sent, [sig |-> Ladder[stStage], how |-> "proc", ok |-> ok])
              /\ delivered' = IF ok THEN delivered \cup {Ladder[stStage]} ELSE delivered
    /\ UNCHANGED << watchArgs, unchecked, osVars, callVars >>
    /\ UNCHANGED << argVars, supVars, procState, procRc, pipe, nWritten,
                    watchVars, cleanVars, stStage, stopRet, histVars >>

\* StopWait that gives up when the SIGTERM grace period times out.
StopWaitGivesUp ==
    /\ pc = "Stop"
    /\ stPc = "wait"
    /\ procState = "exited" \/ (stStage < Len(Ladder) /\ graceLeft = 0)
    /\ IF procState = "exited" \/ stStage = 2
       THEN StopReturns(Poll) /\ UNCHANGED stStage
       ELSE /\ stPc' = "group"
            /\ stStage' = stStage + 1
            /\ UNCHANGED << final_rc, graceLeft, pc, clStep, trace, sent,
                            stopRet >>
    /\ UNCHANGED << watchArgs, unchecked, osVars, callVars >>
    /\ UNCHANGED << argVars, path, initLeft, probeLeft, rc, tail, last_reason,
                    result, procVars, watchVars, obs, probeRun, lastProbe,
                    preDenied >>

\* StopWait whose wait after SIGKILL has a timeout too and returns poll().
StopWaitNoFinalWait ==
    /\ pc = "Stop"
    /\ stPc = "wait"
    /\ procState = "exited" \/ graceLeft = 0
    /\ IF procState = "exited" \/ stStage = Len(Ladder)
       THEN StopReturns(Poll) /\ UNCHANGED stStage
       ELSE /\ stPc' = "group"
            /\ stStage' = stStage + 1
            /\ UNCHANGED << final_rc, graceLeft, pc, clStep, trace, sent,
                            stopRet >>
    /\ UNCHANGED << watchArgs, unchecked, osVars, callVars >>
    /\ UNCHANGED << argVars, path, initLeft, probeLeft, rc, tail, last_reason,
                    result, procVars, watchVars, obs, probeRun, lastProbe,
                    preDenied >>

\* StopWait that goes from SIGINT straight to SIGKILL.
StopWaitSkipsTerminate ==
    /\ pc = "Stop"
    /\ stPc = "wait"
    /\ procState = "exited" \/ (stStage < Len(Ladder) /\ graceLeft = 0)
    /\ IF procState = "exited"
       THEN StopReturns(procRc) /\ UNCHANGED stStage
       ELSE /\ stPc' = "group"
            /\ stStage' = Len(Ladder)
            /\ UNCHANGED << final_rc, graceLeft, pc, clStep, trace, sent,
                            stopRet >>
    /\ UNCHANGED << watchArgs, unchecked, osVars, callVars >>
    /\ UNCHANGED << argVars, path, initLeft, probeLeft, rc, tail, last_reason,
                    result, procVars, watchVars, obs, probeRun, lastProbe,
                    preDenied >>

\* proc.wait(timeout=grace) after SIGINT and SIGTERM, proc.wait() after
\* SIGKILL: returns the exit status, or times out to the next rung.
StopWait ==
    /\ pc = "Stop"
    /\ stPc = "wait"
    /\ procState = "exited" \/ (stStage < Len(Ladder) /\ graceLeft = 0)
    /\ IF procState = "exited"
       THEN StopReturns(procRc) /\ UNCHANGED stStage
       ELSE /\ stPc' = "group"
            /\ stStage' = stStage + 1
            /\ UNCHANGED << final_rc, graceLeft, pc, clStep, trace, sent,
                            stopRet >>
    /\ UNCHANGED << watchArgs, unchecked, osVars, callVars >>
    /\ UNCHANGED << argVars, path, initLeft, probeLeft, rc, tail, last_reason,
                    result, procVars, watchVars, obs, probeRun, lastProbe,
                    preDenied >>

(* --------------------------- StreamWatcher ---------------------------- *)

\* readline returns a line; under the lock it is appended and the list trimmed.
WatcherRead ==
    /\ wPc = "read"
    /\ pipe # << >>
    /\ cur' = Head(pipe)
    /\ pipe' = Tail(pipe)
    /\ lines' = AppendTrim(lines, Head(pipe), keep_last_n)
    /\ unchecked' = TRUE
    /\ wPc' = IF verbose THEN "echo" ELSE "check"
    /\ UNCHANGED << watchArgs, osVars, callVars >>
    /\ UNCHANGED << argVars, supVars, procState, procRc, delivered, nWritten,
                    init_event, exit_event, cleanVars, stopVars, histVars >>

\* if self.verbose: print(line, end=""): returns, or raises (stdout closed or
\* unable to encode the line) and the loop is left through finally.
WatcherEcho ==
    /\ wPc = "echo"
    /\ \E raises \in BOOLEAN :
         wPc' = IF raises THEN "finally" ELSE "check"
    /\ UNCHANGED << watchArgs, unchecked, osVars, callVars >>
    /\ UNCHANGED << argVars, supVars, procVars, lines, cur, init_event,
                    exit_event, cleanVars, stopVars, histVars >>

\* if self.needle in line: self.init_event.set()
WatcherCheck ==
    /\ wPc = "check"
    /\ init_event' = (init_event \/ cur.m)
    /\ unchecked' = FALSE
    /\ wPc' = "read"
    /\ UNCHANGED << watchArgs, osVars, callVars >>
    /\ UNCHANGED << argVars, supVars, procVars, lines, cur, exit_event,
                    cleanVars, stopVars, histVars >>

\* readline returns "" (end of input): the loop ends.
WatcherEof ==
    /\ wPc = "read"
    /\ pipe = << >>
    /\ procState = "exited"
    /\ wPc' = "finally"
    /\ UNCHANGED << watchArgs, unchecked, osVars, callVars >>
    /\ UNCHANGED << argVars, supVars, procVars, lines, cur, init_event,
                    exit_event, cleanVars, stopVars, histVars >>

\* readline raises on the next line (undecodable bytes): the loop ends.
WatcherReadError ==
    /\ wPc = "read"
    /\ pipe # << >>
    /\ pipe' = Tail(pipe)
    /\ wPc' = "finally"
    /\ UNCHANGED << watchArgs, unchecked, osVars, callVars >>
    /\ UNCHANGED << argVars, supVars, procState, procRc, delivered, nWritten,
                    lines, cur, init_event, exit_event, cleanVars, stopVars,
                    histVars >>

\* finally: exit_event.set(), then stream.close() with its errors swallowed.
WatcherFinally ==
    /\ wPc = "finally"
    /\ exit_event' = TRUE
    /\ wPc' = "done"
    /\ UNCHANGED << watchArgs, unchecked, osVars, callVars >>
    /\ UNCHANGED << argVars, supVars, procVars, lines, cur, init_event,
                    cleanVars, stopVars, histVars >>

(* ---------------------------- environment ----------------------------- *)

\* The process writes a line, with or without the marker, max lines at most.
Write(max) ==
    /\ procState = "running"
    /\ nWritten < max
    /\ \E m \in BOOLEAN :
         pipe' = Append(pipe, [id |-> nWritten + 1, m |-> m])
    /\ nWritten' = nWritten + 1
    /\ UNCHANGED << watchArgs, unchecked, osVars, callVars >>
    /\ UNCHANGED << argVars, supVars, procState, procRc, delivered, watchVars,
                    cleanVars, stopVars, histVars >>

\* The process supervised by open_vpn writes a line.
ProcWrite == Write(MaxLines)

\* The process exits: on its own (0 or 1), or killed by a delivered signal.
ProcExit ==
    /\ procState = "running"
    /\ \E code \in {0, 1} \cup {0 - sig : sig \in delivered} :
         procRc' = code
    /\ procState' = "exited"
    /\ delivered' = {}
    /\ UNCHANGED << watchArgs, unchecked, osVars, callVars >>
    /\ UNCHANGED << argVars, supVars, pipe, nWritten, watchVars,
                    cleanVars, stopVars, histVars >>

\* One second passes.
Tick ==
    /\ initLeft > 0 \/ probeLeft > 0 \/ graceLeft > 0
    /\ initLeft' = IF initLeft > 0 THEN initLeft - 1 ELSE 0
    /\ probeLeft' = IF probeLeft > 0 THEN probeLeft - 1 ELSE 0
    /\ graceLeft' = IF graceLeft > 0 THEN graceLeft - 1 ELSE 0
    /\ UNCHANGED << watchArgs, unchecked, osVars, callVars >>
    /\ UNCHANGED << argVars, pc, path, rc, tail, last_reason, final_rc, result,
                    procVars, watchVars, cleanVars, stPc, stStage, sent,
                    stopRet, histVars >>

(* --------------------------- specification ---------------------------- *)
Next ==
    \/ Start
    \/ Launch
    \/ LaunchRaises
    \/ WaitInitReady
    \/ WaitInitPoll
    \/ WaitInitDeadline
    \/ PostInitCheck
    \/ ProbeTest
    \/ ProbePoll
    \/ ProbeCall
    \/ TakeTail
    \/ CleanupStep
    \/ StopPoll
    \/ StopGroup
    \/ StopFallback
    \/ StopWait
    \/ WatcherRead
    \/ WatcherCheck
    \/ WatcherEof
    \/ WatcherReadError
    \/ WatcherFinally
    \/ ProcWrite
    \/ ProcExit
    \/ Tick

Spec == Init /\ [][Next]_vars

(* ------------------- parts at rest, for the harnesses ------------------ *)

\* open_vpn is not running: the code at position p is a caller outside it.
IdleSupervisor(p, q) ==
    /\ pre_cleanup = FALSE
    /\ post_init_probe = FALSE
    /\ timeout_s = 0
    /\ probe_timeout_s = 0
    /\ pc = p
    /\ path = q
    /\ initLeft = 0
    /\ probeLeft = 0
    /\ rc = NoRc
    /\ tail = << >>
    /\ last_reason = "none"
    /\ final_rc = NoRc
    /\ result = NoResult
    /\ trace = << >>
    /\ obs = NoObs
    /\ probeRun = FALSE
    /\ lastProbe = "none"

\* No StreamWatcher has been constructed.
IdleWatcher ==
    /\ keep_last_n = KeepLastN
    /\ verbose = FALSE
    /\ wPc = "unstarted"
    /\ lines = << >>
    /\ cur = [id |-> 0, m |-> FALSE]
    /\ init_event = FALSE
    /\ exit_event = FALSE
    /\ unchecked = FALSE

\* stop_process is not running and has not run.
IdleStop ==
    /\ stPc = "idle"
    /\ stStage = 1
    /\ graceLeft = 0
    /\ sent = << >>
    /\ stopRet = NoRc

\* _best_effort_cleanup is not running and has not run, on a clean host.
IdleCleanup ==
    /\ clStep = 0
    /\ preDenied = FALSE
    /\ os = CleanHost
    /\ clRun = NoRun
    /\ calls = << >>

(* ------------------- stop_process called by a caller ------------------- *)

\* How many times the caller calls stop_process on its handle.
StopCalls == 2

\* The stop_process calls made so far.
NumStopCalls == Cardinality({i \in DOMAIN trace : trace[i].e = "stop_call"})

\* The caller holds the handle of a process that runs or has already exited.
StopInit ==
    /\ IdleSupervisor("Caller", "direct")
    /\ IdleCallers
    /\ IdleWatcher
    /\ IdleStop
    /\ IdleCleanup
    /\ procRc \in {NoRc, 0, 1}
    /\ procState = IF procRc = NoRc THEN "running" ELSE "exited"
    /\ delivered = {}
    /\ pipe = << >>
    /\ nWritten = 0

\* The caller calls stop_process(proc).
CallStop ==
    /\ pc = "Caller"
    /\ path = "direct"
    /\ NumStopCalls < StopCalls
    /\ BeginStop("direct")
    /\ UNCHANGED << watchArgs, unchecked, osVars, callVars >>
    /\ UNCHANGED << argVars, initLeft, probeLeft, rc, tail, last_reason, final_rc,
                    result, procVars, watchVars, cleanVars, obs, probeRun,
                    lastProbe, preDenied >>

StopNext ==
    \/ CallStop
    \/ StopPoll
    \/ StopGroup
    \/ StopFallback
    \/ StopWait
    \/ ProcExit
    \/ Tick

StopSpec == StopInit /\ [][StopNext]_vars

\* A delivered SIGKILL ends the process.
KillTakesEffect == ProcExit /\ SIGKILL \in delivered

\* StopSpec with the thread that runs stop_process scheduled, the clock
\* advancing, and a delivered SIGKILL eventually effective.
FairStopSpec ==
    /\ StopSpec
    /\ WF_vars(StopPoll)
    /\ WF_vars(StopGroup)
    /\ WF_vars(StopFallback)
    /\ WF_vars(StopWait)
    /\ WF_vars(Tick)
    /\ WF_vars(KillTakesEffect)

(* ---------------- _best_effort_cleanup called by a caller -------------- *)

\* How many times the caller calls _best_effort_cleanup.
CleanupCalls == 2

\* No supervised process exists; the host has any strays and def1 routes.
CleanupInit ==
    /\ IdleSupervisor("Caller", "direct")
    /\ IdleCallers
    /\ IdleWatcher
    /\ IdleStop
    /\ procState = "none"
    /\ procRc = NoRc
    /\ delivered = {}
    /\ pipe = << >>
    /\ nWritten = 0
    /\ clStep = 0
    /\ preDenied = FALSE
    /\ os \in [strays : BOOLEAN, routes : SUBSET Def1Routes]
    /\ clRun = NoRun
    /\ calls = << >>

\* The caller calls _best_effort_cleanup().
CallCleanup ==
    /\ pc = "Caller"
    /\ clStep = 0
    /\ Len(calls) < CleanupCalls
    /\ clStep' = 1
    /\ clRun' = [issued |-> << >>, failed |-> {}, before |-> os]
    /\ UNCHANGED << watchArgs, unchecked, os, calls, callVars >>
    /\ UNCHANGED << argVars, supVars, procVars, watchVars, stopVars, histVars >>

\* The record of a call that ended after the commands of run, leaving host h.
CallRecord(ok, raised, run, h) ==
    [ok |-> ok, raised |-> raised, issued |-> run.issued,
     before |-> run.before, after |-> h]

\* One command of the cleanup, run through _sudo_cmd with check mode `check`,
\* with its effect on the host: a RuntimeError makes the routine return
\* (False, ...), another exception leaves it, the last command returns
\* (True, "cleanup-ok").
IssueCmd(check) ==
    /\ pc = "Caller"
    /\ clStep \in 1..Len(CleanupCmds)
    /\ \E o \in CmdOutcomes :
         /\ Possible(CleanupCmds[clStep], o, os)
         /\ \E h \in Effects(CleanupCmds[clStep], o, os) :
              LET r == SudoCmd(o, check)
                  run == [clRun EXCEPT
                             !.issued = Append(@, CleanupCmds[clStep]),
                             !.failed = IF o = "exit0" THEN @ ELSE @ \cup {o}]
              IN  /\ os' = h
                  /\ clRun' = run
                  /\ IF r.raised = "RuntimeError"
                     THEN /\ clStep' = 0
                          /\ calls' = Append(calls, CallRecord(FALSE, FALSE, run, h))
                     ELSE IF r.raised # "none"
                     THEN /\ clStep' = 0
                          /\ calls' = Append(calls, CallRecord(FALSE, TRUE, run, h))
                     ELSE IF clStep = Len(CleanupCmds)
                     THEN /\ clStep' = 0
                          /\ calls' = Append(calls, CallRecord(TRUE, FALSE, run, h))
                     ELSE /\ clStep' = clStep + 1
                          /\ UNCHANGED calls
    /\ UNCHANGED << watchArgs, unchecked, callVars >>
    /\ UNCHANGED << argVars, supVars, procVars, watchVars, stopVars, histVars >>

\* The next command of the running cleanup: no step overrides check.
CleanupCmd == IssueCmd(DefaultCheck)

CleanupNext ==
    \/ CallCleanup
    \/ CleanupCmd

CleanupSpec == CleanupInit /\ [][CleanupNext]_vars

(* ------------------------ one StreamWatcher alone ---------------------- *)

\* keep_last_n is drawn from 0..MaxKeepLastN.
MaxKeepLastN == 2

\* Lines the stream delivers at most.
MaxStreamLines == 5

\* A watcher constructed with any keep_last_n and verbose has been started on
\* the stdout of a running process.
WatcherInit ==
    /\ IdleSupervisor("Caller", "direct")
    /\ IdleCallers
    /\ IdleStop
    /\ IdleCleanup
    /\ procState = "running"
    /\ procRc = NoRc
    /\ delivered = {}
    /\ pipe = << >>
    /\ nWritten = 0
    /\ keep_last_n \in 0..MaxKeepLastN
    /\ verbose \in BOOLEAN
    /\ wPc = "read"
    /\ lines = << >>
    /\ cur = [id |-> 0, m |-> FALSE]
    /\ init_event = FALSE
    /\ exit_event = FALSE
    /\ unchecked = FALSE

\* The process behind the stream writes a line.
StreamWrite == Write(MaxStreamLines)

WatcherNext ==
    \/ StreamWrite
    \/ ProcExit
    \/ WatcherRead
    \/ WatcherEcho
    \/ WatcherCheck
    \/ WatcherEof
    \/ WatcherReadError
    \/ WatcherFinally

WatcherSpec == WatcherInit /\ [][WatcherNext]_vars

(* ---------------------- _run_cmd called by a caller -------------------- *)

\* How many times the caller calls _run_cmd.
RunCalls == 2

\* The _run_cmd call that began last.
LastCmd == cmdLog[Len(cmdLog)]

\* No _run_cmd call is in progress.
NoCmdRunning ==
    IF cmdLog = << >> THEN TRUE ELSE LastCmd.pc \in {"returned", "raised"}

\* Nothing but the caller of _run_cmd exists.
RunInit ==
    /\ IdleSupervisor("Caller", "direct")
    /\ IdleCallers
    /\ IdleWatcher
    /\ IdleStop
    /\ IdleCleanup
    /\ procState = "none"
    /\ procRc = NoRc
    /\ delivered = {}
    /\ pipe = << >>
    /\ nWritten = 0

\* _run_cmd(cmd, check=check) is called and enters its try block.
CallRunCmd ==
    /\ pc = "Caller"
    /\ NoCmdRunning
    /\ Len(cmdLog) < RunCalls
    /\ \E check \in BOOLEAN :
         cmdLog' = Append(cmdLog,
                          [check |-> check, pc |-> "try", execs |-> 0,
                           o |-> "none", rc |-> NoRc, out |-> "none",
                           raised |-> "none"])
    /\ UNCHANGED << watchArgs, unchecked, osVars, closeRet, mgrVars >>
    /\ UNCHANGED << argVars, supVars, procVars, watchVars, cleanVars, stopVars,
                    histVars >>

\* subprocess.run(...): the command is executed, and control goes on in the
\* try block, in the TimeoutExpired handler or in the Exception handler.
RunCmdExec ==
    /\ pc = "Caller"
    /\ cmdLog # << >>
    /\ LastCmd.pc = "try"
    /\ \E o \in CmdOutcomes :
         cmdLog' = [cmdLog EXCEPT ![Len(cmdLog)] =
                       [@ EXCEPT !.o = o,
                                 !.execs = @ + 1,
                                 !.pc = CASE o \in {"timeout", "timeout_output"}
                                               -> "except TimeoutExpired"
                                          [] o = "oserror" -> "except Exception"
                                          [] OTHER -> "after run"]]
    /\ UNCHANGED << watchArgs, unchecked, osVars, closeRet, mgrVars >>
    /\ UNCHANGED << argVars, supVars, procVars, watchVars, cleanVars, stopVars,
                    histVars >>

\* The rest of the try block, or the handler: _run_cmd returns or raises.
RunCmdFinish ==
    /\ pc = "Caller"
    /\ cmdLog # << >>
    /\ LastCmd.pc \in {"after run", "except TimeoutExpired", "except Exception"}
    /\ LET r == RunCmd(LastCmd.o, LastCmd.check)
       IN  cmdLog' = [cmdLog EXCEPT ![Len(cmdLog)] =
                         [@ EXCEPT !.rc = r.rc,
                                   !.out = r.out,
                                   !.raised = r.raised,
                                   !.pc = IF r.raised = "none" THEN "returned"
                                          ELSE "raised"]]
    /\ UNCHANGED << watchArgs, unchecked, osVars, closeRet, mgrVars >>
    /\ UNCHANGED << argVars, supVars, procVars, watchVars, cleanVars, stopVars,
                    histVars >>

RunNext ==
    \/ CallRunCmd
    \/ RunCmdExec
    \/ RunCmdFinish

RunSpec == RunInit /\ [][RunNext]_vars

(* --------------------- close_vpn called by a caller -------------------- *)

\* How many times the caller calls close_vpn on its handle.
CloseCalls == 2

\* The caller holds the handle of a process that runs or has already exited.
CloseInit ==
    /\ IdleSupervisor("Caller", "close")
    /\ IdleCallers
    /\ IdleWatcher
    /\ IdleStop
    /\ IdleCleanup
    /\ procRc \in {NoRc, 0, 1}
    /\ procState = IF procRc = NoRc THEN "running" ELSE "exited"
    /\ delivered = {}
    /\ pipe = << >>
    /\ nWritten = 0

\* close_vpn(proc) is called: rc = stop_process(proc).
CallClose ==
    /\ pc = "Caller"
    /\ path = "close"
    /\ NumStopCalls < CloseCalls
    /\ BeginStop("close")
    /\ UNCHANGED << watchArgs, unchecked, osVars, callVars >>
    /\ UNCHANGED << argVars, initLeft, probeLeft, rc, tail, last_reason, final_rc,
                    result, procVars, watchVars, cleanVars, obs, probeRun,
                    lastProbe, preDenied >>

CloseNext ==
    \/ CallClose
    \/ StopPoll
    \/ StopGroup
    \/ StopFallback
    \/ StopWait
    \/ CleanupStep
    \/ ProcExit
    \/ Tick

CloseSpec == CloseInit /\ [][CloseNext]_vars

(* ------------------ VpnManager (src/vpn_manager.py) ------------------- *)

\* How many times connect_to_vpn and disconnect are called, together.
MgrCalls == 2

\* A VpnManager just constructed (self.proc = None); nothing has been
\* launched.  Its open_vpn calls use the defaults pre_cleanup = True and
\* post_init_probe = True, and the default timeouts stand at their bounds.
ManagerInit ==
    /\ pre_cleanup = TRUE
    /\ post_init_probe = TRUE
    /\ timeout_s = MaxTimeoutS
    /\ probe_timeout_s = MaxProbeTimeoutS
    /\ pc = "Caller"
    /\ path = "none"
    /\ initLeft = 0
    /\ probeLeft = 0
    /\ rc = NoRc
    /\ tail = << >>
    /\ last_reason = "none"
    /\ final_rc = NoRc
    /\ result = NoResult
    /\ trace = << >>
    /\ obs = NoObs
    /\ probeRun = FALSE
    /\ lastProbe = "none"
    /\ IdleCallers
    /\ IdleWatcher
    /\ IdleStop
    /\ IdleCleanup
    /\ procState = "none"
    /\ procRc = NoRc
    /\ delivered = {}
    /\ pipe = << >>
    /\ nWritten = 0

\* connect_to_vpn that goes on to open_vpn without self.disconnect().
ConnectSkipsDisconnect ==
    /\ pc = "Caller"
    /\ mgrPc = "idle"
    /\ mgrCalls < MgrCalls
    /\ mgrCalls' = mgrCalls + 1
    /\ mgrPc' = "connect_open"
    /\ UNCHANGED << pc, path, stopVars, trace, mgrProc >>
    /\ UNCHANGED << watchArgs, unchecked, osVars, cmdLog, closeRet >>
    /\ UNCHANGED << argVars, initLeft, probeLeft, rc, tail, last_reason, final_rc,
                    result, procVars, watchVars, cleanVars, obs, probeRun,
                    lastProbe, preDenied >>

\* connect_to_vpn is called: self.disconnect() first, which calls close_vpn
\* on the handle held and does nothing when none is held.
Connect ==
    /\ pc = "Caller"
    /\ mgrPc = "idle"
    /\ mgrCalls < MgrCalls
    /\ mgrCalls' = mgrCalls + 1
    /\ IF mgrProc # "None"
       THEN /\ BeginStop("close")
            /\ mgrPc' = "connect_disconnect"
       ELSE /\ mgrPc' = "connect_open"
            /\ UNCHANGED << pc, path, stopVars, trace >>
    /\ UNCHANGED mgrProc
    /\ UNCHANGED << watchArgs, unchecked, osVars, cmdLog, closeRet >>
    /\ UNCHANGED << argVars, initLeft, probeLeft, rc, tail, last_reason, final_rc,
                    result, procVars, watchVars, cleanVars, obs, probeRun,
                    lastProbe, preDenied >>

\* disconnect is called: close_vpn on the handle held, nothing when none is.
Disconnect ==
    /\ pc = "Caller"
    /\ mgrPc = "idle"
    /\ mgrCalls < MgrCalls
    /\ mgrCalls' = mgrCalls + 1
    /\ IF mgrProc # "None"
       THEN /\ BeginStop("close")
            /\ mgrPc' = "disconnect"
       ELSE /\ UNCHANGED << pc, path, stopVars, trace, mgrPc >>
    /\ UNCHANGED mgrProc
    /\ UNCHANGED << watchArgs, unchecked, osVars, cmdLog, closeRet >>
    /\ UNCHANGED << argVars, initLeft, probeLeft, rc, tail, last_reason, final_rc,
                    result, procVars, watchVars, cleanVars, obs, probeRun,
                    lastProbe, preDenied >>

\* close_vpn has returned inside disconnect: self.proc = None; disconnect
\* returns, to its caller or into connect_to_vpn.
DisconnectReturns ==
    /\ pc = "Caller"
    /\ mgrPc \in {"disconnect", "connect_disconnect"}
    /\ mgrProc' = "None"
    /\ mgrPc' = IF mgrPc = "disconnect" THEN "idle" ELSE "connect_open"
    /\ UNCHANGED << watchArgs, unchecked, osVars, cmdLog, closeRet, mgrCalls >>
    /\ UNCHANGED << argVars, supVars, procVars, watchVars, cleanVars, stopVars,
                    histVars >>

\* connect_to_vpn calls open_vpn(ovpn_path, auth_path, verbose): a new
\* attempt with its own locals, process and watcher.  A process that an
\* earlier open_vpn left running when it raised is followed no further.
CallOpenVpn ==
    /\ pc = "Caller"
    /\ mgrPc = "connect_open"
    /\ mgrPc' = "open_vpn"
    /\ pc' = "Start"
    /\ path' = "none"
    /\ initLeft' = 0
    /\ probeLeft' = 0
    /\ rc' = NoRc
    /\ tail' = << >>
    /\ last_reason' = "none"
    /\ final_rc' = NoRc
    /\ result' = NoResult
    /\ procState' = "none"
    /\ procRc' = NoRc
    /\ delivered' = {}
    /\ pipe' = << >>
    /\ nWritten' = 0
    /\ wPc' = "unstarted"
    /\ lines' = << >>
    /\ cur' = [id |-> 0, m |-> FALSE]
    /\ init_event' = FALSE
    /\ exit_event' = FALSE
    /\ unchecked' = FALSE
    /\ clStep' = 0
    /\ stPc' = "idle"
    /\ stStage' = 1
    /\ graceLeft' = 0
    /\ sent' = << >>
    /\ stopRet' = NoRc
    /\ trace' = << >>
    /\ obs' = NoObs
    /\ probeRun' = FALSE
    /\ lastProbe' = "none"
    /\ preDenied' = FALSE
    /\ UNCHANGED << argVars, watchArgs, osVars, cmdLog, closeRet, mgrProc, mgrCalls >>

\* open_vpn has returned: self.proc = result.proc, and connect_to_vpn returns.
OpenVpnReturns ==
    /\ pc = "Done"
    /\ mgrPc = "open_vpn"
    /\ mgrProc' = result.proc
    /\ mgrPc' = "idle"
    /\ pc' = "Caller"
    /\ UNCHANGED << watchArgs, unchecked, osVars, cmdLog, closeRet, mgrCalls >>
    /\ UNCHANGED << argVars, path, initLeft, probeLeft, rc, tail, last_reason,
                    final_rc, result, procVars, watchVars, cleanVars, stopVars,
                    histVars >>

\* close_vpn or open_vpn has raised: the exception leaves disconnect or
\* connect_to_vpn before the assignment to self.proc.
MethodRaises ==
    /\ pc = "Raised"
    /\ mgrPc \in {"disconnect", "connect_disconnect", "open_vpn"}
    /\ mgrPc' = "idle"
    /\ pc' = "Caller"
    /\ UNCHANGED << watchArgs, unchecked, osVars, cmdLog, closeRet, mgrProc,
                    mgrCalls >>
    /\ UNCHANGED << argVars, path, initLeft, probeLeft, rc, tail, last_reason,
                    final_rc, result, procVars, watchVars, cleanVars, stopVars,
                    histVars >>

ManagerNext ==
    \/ Connect
    \/ Disconnect
    \/ DisconnectReturns
    \/ CallOpenVpn
    \/ OpenVpnReturns
    \/ MethodRaises
    \/ Next

ManagerSpec == ManagerInit /\ [][ManagerNext]_vars

(* ------------------------------ claims -------------------------------- *)

Returned == pc = "Done"
Launched == procState # "none"

\* The names of the last k events of the trace.
LastEvents(k) ==
    IF Len(trace) < k THEN << >>
    ELSE [i \in 1..k |-> trace[Len(trace) - k + i].e]

\* C1: in every result open_vpn returns the process handle is present if and
\* only if ok is true; an ok result carries the handle of a launched process.
C1_HandleIffOk ==
    Returned =>
        /\ result.ok <=> result.proc = "handle"
        /\ ~result.ok <=> result.proc = "None"
        /\ result.ok => Launched

C1_Witness ==
    /\ Returned
    /\ result.ok
    /\ result.proc = "handle"
    /\ result.reason = "initialized+probe-ok"

\* C2: when open_vpn returns ok=False after having launched a process, that
\* process has exited by the time the result is returned.
C2_FailedMeansExited ==
    (Returned /\ ~result.ok /\ Launched) => procState = "exited"

C2_Witness ==
    /\ Returned
    /\ ~result.ok
    /\ result.reason = "timeout-waiting-init"
    /\ procState = "exited"
    /\ procRc = 0 - SIGKILL

\* C3: on every failure path after launch the cleanup is invoked after the
\* process has stopped and before the result is returned, exactly once; on
\* the timeout and probe-failed paths stop_process has returned before the
\* cleanup starts.
C3_CleanupAfterStopBeforeReturn ==
    /\ (pc = "Cleanup" /\ path # "pre") =>
            /\ procState = "exited"
            /\ stPc = "idle"
            /\ ~trace[Len(trace)].alive
    /\ (Returned /\ ~result.ok /\ Launched) =>
            /\ LastEvents(3) = << "cleanup_begin", "cleanup_end", "return" >>
            /\ ~trace[Len(trace) - 2].alive
            /\ IF path \in {"timeout", "probe_failed"}
               THEN /\ LastEvents(6) = << "launch", "stop_call", "stop_return",
                                          "cleanup_begin", "cleanup_end", "return" >>
                    /\ ~trace[Len(trace) - 3].alive
               ELSE LastEvents(4) = << "launch", "cleanup_begin", "cleanup_end",
                                       "return" >>

C3_Witness ==
    /\ Returned
    /\ result.reason = "init-seen-but-probe-failed"
    /\ LastEvents(5) = << "stop_call", "stop_return", "cleanup_begin",
                          "cleanup_end", "return" >>
\* The names of the first k events of the trace.
FirstEvents(k) ==
    IF Len(trace) < k THEN << >> ELSE [i \in 1..k |-> trace[i].e]

\* C4: with pre_cleanup the cleanup runs exactly once before the launch, and
\* a cleanup-failed result is returned without any process or watcher having
\* been started.
C4_PreCleanupOnceThenLaunch ==
    /\ (pre_cleanup /\ (Launched \/ wPc # "unstarted")) =>
            FirstEvents(3) = << "cleanup_begin", "cleanup_end", "launch" >>
    /\ (pre_cleanup /\ pc = "Launch") =>
            /\ LastEvents(Len(trace)) = << "cleanup_begin", "cleanup_end" >>
            /\ ~Launched
    /\ (Returned /\ result.reason = "cleanup-failed") =>
            /\ ~result.ok
            /\ ~Launched
            /\ wPc = "unstarted"
            /\ LastEvents(Len(trace)) = << "cleanup_begin", "cleanup_end", "return" >>
    /\ (~pre_cleanup /\ Launched) => FirstEvents(1) = << "launch" >>

C4_Witness ==
    /\ pre_cleanup
    /\ Launched
    /\ wPc # "unstarted"
    /\ FirstEvents(3) = << "cleanup_begin", "cleanup_end", "launch" >>

\* C5: when sudo -n refuses the commands of the pre-flight cleanup, the
\* attempt ends with a cleanup-failed result and nothing is launched.
C5_SudoDeniedAborts ==
    (pre_cleanup /\ preDenied /\ ~(pc = "Cleanup" /\ path = "pre")) =>
        /\ ~Launched
        /\ wPc = "unstarted"
        /\ Returned => result.reason = "cleanup-failed"

\* C6: each WAIT_INIT iteration tests ready, then process exit, then the
\* deadline: ready set sends the supervisor to POST_INIT_CHECK whatever the
\* process and the clock say; an exited process without ready gives the
\* exited-early path whatever the clock says; the timeout path is taken only
\* when the iteration saw neither.
C6_Step ==
    /\ (pc = "WaitInitReady" /\ pc' # pc) =>
            IF init_event THEN pc' = "PostInitCheck" ELSE pc' = "WaitInitPoll"
    /\ (pc = "WaitInitPoll" /\ pc' # pc) =>
            IF procState = "exited"
            THEN pc' = "Tail" /\ path' = "early" /\ rc' = procRc
            ELSE pc' = "WaitInitDeadline"
    /\ (pc = "WaitInitDeadline" /\ pc' # pc) =>
            IF initLeft = 0
            THEN pc' = "Tail" /\ path' = "timeout"
            ELSE pc' = "WaitInitReady"
    /\ (pc # "Done" /\ pc' = "Done" /\ result'.reason = "openvpn-exited-early") =>
            ~obs.ready /\ ~obs.alive /\ result'.rc = procRc
    /\ (pc # "Done" /\ pc' = "Done" /\ result'.reason = "timeout-waiting-init") =>
            ~obs.ready /\ obs.alive /\ obs.expired

\* C6: every step of the supervisor keeps the WAIT_INIT priority order
\* ready, process exit, deadline.
C6_WaitInitPriority == [][C6_Step]_vars

C6_Witness ==
    /\ pc = "PostInitCheck"
    /\ timeout_s > 0
    /\ obs.ready
    /\ obs.sameTick

\* C7: when the deadline test finds the deadline reached (ready unset, process
\* running), the supervisor calls stop_process, then the cleanup, and returns
\* ok=False, reason timeout-waiting-init, with the status stop_process returned.
C7_Step ==
    /\ (pc = "WaitInitDeadline" /\ pc' # pc /\ initLeft = 0) =>
            pc' = "Tail" /\ path' = "timeout"
    /\ (pc = "Tail" /\ path = "timeout" /\ pc' # pc) =>
            pc' = "Stop" /\ stPc' = "poll"
    /\ (pc = "Stop" /\ pc' = "Cleanup") =>
            /\ procState = "exited"
            /\ stopRet' = procRc
            /\ final_rc' = stopRet'
    /\ (pc # "Done" /\ pc' = "Done" /\ result'.reason = "timeout-waiting-init") =>
            /\ ~result'.ok
            /\ result'.proc = "None"
            /\ result'.rc = stopRet
            /\ result'.rc = procRc
            /\ ~obs.ready /\ obs.alive /\ obs.expired
            /\ [i \in 1..5 |-> trace'[Len(trace') - 5 + i].e] =
                   << "stop_call", "stop_return", "cleanup_begin", "cleanup_end",
                      "return" >>

\* C7: every step keeps the timeout path: deadline reached, stop_process,
\* cleanup, then the timeout-waiting-init result with stop_process's status.
C7_TimeoutStopsThenCleans == [][C7_Step]_vars

C7_Witness ==
    /\ Returned
    /\ result.reason = "timeout-waiting-init"
    /\ timeout_s > 0
    /\ ~init_event
    /\ result.rc = 0 - SIGINT

\* C8: after ready the supervisor polls the process once; if it has exited the
\* result is ok=False, exited-after-init with its status, after the cleanup;
\* if it is alive the supervisor enters PROBE, or returns ok=True "initialized"
\* without any probe when post_init_probe is off.
C8_Step ==
    /\ (pc # "PostInitCheck" /\ pc' = "PostInitCheck") => init_event
    /\ (pc = "PostInitCheck" /\ pc' # pc) =>
            IF procState = "exited"
            THEN pc' = "Tail" /\ path' = "after_init" /\ rc' = procRc
                              /\ result' = NoResult
            ELSE IF post_init_probe
            THEN pc' = "ProbeTest" /\ result' = NoResult /\ ~probeRun'
            ELSE /\ pc' = "Done"
                 /\ result' = SuccessResult("initialized")
                 /\ ~probeRun'
    /\ (pc # "Done" /\ pc' = "Done" /\ result'.reason = "exited-after-init") =>
            /\ ~result'.ok
            /\ result'.rc = procRc
            /\ obs.ready /\ ~obs.alive
            /\ ~probeRun
            /\ [i \in 1..3 |-> trace'[Len(trace') - 3 + i].e] =
                   << "cleanup_begin", "cleanup_end", "return" >>
    /\ (pc # "Done" /\ pc' = "Done" /\ result'.reason = "initialized") =>
            ~post_init_probe /\ obs.ready /\ pc = "PostInitCheck"

\* C8: every step keeps the POST_INIT_CHECK rule: one poll after ready, then
\* exited-after-init, the probe loop, or the probe-less success.
C8_PostInitCheck == [][C8_Step]_vars

C8_Witness ==
    /\ Returned
    /\ result.reason = "exited-after-init"
    /\ init_event
    /\ obs.ready

\* C9: ok=True with reason initialized+probe-ok is returned only from a PROBE
\* iteration entered before the probe deadline in which the poll found the
\* process running and the probe (which requires the tunnel route) then
\* succeeded; an iteration whose poll finds the process exited runs no probe
\* and leads to died-during-probe after the cleanup.
C9_Step ==
    /\ (pc = "ProbeTest" /\ pc' = "ProbePoll") => probeLeft > 0
    /\ (pc = "ProbePoll" /\ pc' # pc) =>
            IF procState = "exited"
            THEN /\ pc' = "Tail" /\ path' = "died" /\ rc' = procRc
                 /\ UNCHANGED << probeRun, lastProbe >>
            ELSE pc' = "ProbeCall"
    /\ (pc # "Done" /\ pc' = "Done" /\ result'.reason = "initialized+probe-ok") =>
            /\ result'.ok
            /\ post_init_probe
            /\ pc = "ProbeCall"
            /\ obs.alive
            /\ obs'.probed /\ obs'.route
            /\ lastProbe' = "probe-ok"
    /\ (pc # "Done" /\ pc' = "Done" /\ result'.reason = "died-during-probe") =>
            /\ ~result'.ok
            /\ result'.rc = procRc
            /\ ~obs.alive /\ ~obs.probed
            /\ [i \in 1..3 |-> trace'[Len(trace') - 3 + i].e] =
                   << "cleanup_begin", "cleanup_end", "return" >>

\* C9: every step keeps the PROBE rule: poll first, probe only if alive,
\* probe-ok success only from such an iteration.
C9_ProbeOkOnlyAfterAlivePoll == [][C9_Step]_vars

C9_Witness ==
    /\ Returned
    /\ result.ok
    /\ result.reason = "initialized+probe-ok"
    /\ obs.alive /\ obs.probed /\ obs.route

\* C10 as stated: the probe-failed result always carries the reason returned
\* by the most recent _internet_probe_ok call.
C10_LastReasonIsFromAProbe ==
    (Returned /\ result.reason = "init-seen-but-probe-failed") =>
        /\ probeRun
        /\ result.last = lastProbe

\* C10 as amended: when the probe deadline elapses without a successful probe
\* the supervisor runs stop_process, then the cleanup, and returns ok=False,
\* init-seen-but-probe-failed with the status stop_process returned and, as
\* last probe reason, the reason of the most recent probe call if a probe was
\* called, and "probe-not-run" if the deadline had elapsed before any call.
C10_ProbeFailedResult ==
    (Returned /\ result.reason = "init-seen-but-probe-failed") =>
        /\ ~result.ok
        /\ result.proc = "None"
        /\ obs.expired
        /\ result.rc = stopRet
        /\ result.rc = procRc
        /\ procState = "exited"
        /\ LastEvents(5) = << "stop_call", "stop_return", "cleanup_begin",
                              "cleanup_end", "return" >>
        /\ IF probeRun
           THEN result.last = lastProbe /\ result.last # "probe-ok"
           ELSE result.last = "probe-not-run"

C10_Witness ==
    /\ Returned
    /\ result.reason = "init-seen-but-probe-failed"
    /\ probe_timeout_s > 0
    /\ probeRun
    /\ result.last = "route-to-1.1.1.1-not-utun"

\* C11 as stated: at the moment open_vpn returns ok=True the supervised
\* process is still running, whatever the interleaving of its exit with the
\* polls and the probe.  The return event records whether it was.
C11_LiveAtReturn ==
    (Returned /\ result.ok) =>
        /\ trace[Len(trace)].e = "return"
        /\ trace[Len(trace)].alive

\* C11, amended: at the moment open_vpn returns ok=True the process was
\* running at the supervisor's most recent liveness poll (that poll returned
\* None), and the handle is returned; the process may have exited since.
C11_LiveAtLastPoll ==
    (Returned /\ result.ok) =>
        /\ rc = NoRc
        /\ obs.alive
        /\ result.proc = "handle"

\* A success return made after the process exited during the probe.
C11_Witness ==
    /\ Returned
    /\ result.ok
    /\ result.reason = "initialized+probe-ok"
    /\ ~trace[Len(trace)].alive
    /\ rc = NoRc

\* C12: stop_process never returns while the process is alive: at every
\* return the process has exited, and the value returned is its exit status.
C12_StopReturnsOnlyAfterExit ==
    /\ \A i \in DOMAIN trace : trace[i].e = "stop_return" => ~trace[i].alive
    /\ (pc = "Caller" /\ NumStopCalls > 0) =>
          /\ procState = "exited"
          /\ stopRet # NoRc
          /\ stopRet = procRc

\* stop_process has returned the status of a process that only SIGKILL ended.
C12_Witness ==
    /\ pc = "Caller"
    /\ NumStopCalls > 0
    /\ stopRet = 0 - SIGKILL
    /\ trace[Len(trace)].e = "stop_return"

\* The signal and the grace period the claim gives each rung of the ladder.
C13_Sig(k) == IF k = 1 THEN SIGINT ELSE IF k = 2 THEN SIGTERM ELSE SIGKILL
C13_Grace(k) == IF k = 1 THEN SigintGraceS ELSE IF k = 2 THEN SigtermGraceS ELSE 0

C13_Step ==
    \* the next rung is taken only from a wait that ran its full grace period
    \* after the previous rung's signal, with the process still running
    /\ (stPc # "idle" /\ stStage' # stStage) =>
          /\ stStage' = stStage + 1
          /\ stPc = "wait"
          /\ graceLeft = 0
          /\ procState = "running"
          /\ sent # << >>
          /\ sent[Len(sent)].sig = C13_Sig(stStage)
    \* a signal sent is the current rung's: to the group first, right after
    \* the previous rung's signal, and to the process alone only after the
    \* group attempt of the same signal failed
    /\ (Len(sent') > Len(sent)) =>
          LET x == sent'[Len(sent')]
          IN  /\ sent' = Append(sent, x)
              /\ x.sig = C13_Sig(stStage)
              /\ IF x.how = "group"
                 THEN /\ stPc = "group"
                      /\ IF stStage = 1 THEN sent = << >>
                         ELSE sent[Len(sent)].sig = C13_Sig(stStage - 1)
                 ELSE /\ stPc = "fallback"
                      /\ sent # << >>
                      /\ sent[Len(sent)] = [sig |-> x.sig, how |-> "group", ok |-> FALSE]
    \* the wait that follows a rung has that rung's grace period
    /\ (stPc \in {"group", "fallback"} /\ stPc' = "wait") =>
          graceLeft' = C13_Grace(stStage)
    \* a poll or wait that observes the exit ends the call: nothing is sent after
    /\ (stPc \in {"poll", "wait"} /\ stPc' # stPc /\ procState = "exited") =>
          /\ stPc' = "idle"
          /\ sent' = << >>

\* C13: stop_process escalates strictly interrupt, terminate, kill: terminate
\* is sent only if the process is still running after the full sigint_grace
\* wait that follows the interrupt, kill only if it is still running after the
\* full sigterm_grace wait that follows the terminate; nothing is sent once
\* the exit has been observed, and no rung is skipped or reordered.
C13_StrictEscalation == [][C13_Step]_vars

\* All three rungs were needed, one of them through the fallback.
C13_Witness ==
    /\ stPc = "wait"
    /\ stStage = 3
    /\ \E i \in DOMAIN sent : sent[i].how = "proc"
    /\ \E i \in DOMAIN sent : sent[i].sig = SIGKILL
    /\ \E i \in DOMAIN sent : sent[i].sig = SIGINT /\ sent[i].ok

C14_Step ==
    \* called on an exited process, stop_process returns its status at the
    \* poll, having sent nothing and changed nothing about the process
    /\ (stPc = "poll" /\ procState = "exited" /\ stPc' # stPc) =>
          /\ stPc' = "idle"
          /\ stopRet' = procRc
          /\ sent = << >>
          /\ UNCHANGED procVars
    \* once a call has returned, a further call returns the same status,
    \* sends nothing and leaves the process as it is
    /\ (stopRet # NoRc) =>
          /\ stopRet' = stopRet
          /\ sent' = << >>
          /\ stPc' \in {"poll", "idle"}
          /\ UNCHANGED procVars

\* C14: called on a process that has already exited, stop_process returns the
\* exit status immediately and sends no signal; called again on a stopped
\* process it returns the same status and changes nothing.
C14_StoppedIsNoOp == [][C14_Step]_vars

\* Two calls have returned, the first made on a process already exited.
C14_Witness ==
    /\ pc = "Caller"
    /\ NumStopCalls = 2
    /\ trace[Len(trace)].e = "stop_return"
    /\ trace[1].e = "stop_call"
    /\ ~trace[1].alive
    /\ stopRet = procRc

\* C15 as stated: two cleanup calls in succession with no supervised process
\* both return ok=True, and the second leaves the host (stray processes, def1
\* routes) exactly as the first left it.
C15_SecondCallChangesNothing ==
    Len(calls) >= 2 =>
        /\ calls[1].ok
        /\ calls[2].ok
        /\ calls[2].after = calls[1].after

\* The commands of the three sub-steps in the order the claim gives.
C16_Order ==
    << "cleanup-pkill-term", "cleanup-pkill-kill",
       "cleanup-dnsflush", "cleanup-mdns",
       "cleanup-route-0/1", "cleanup-route-128/1" >>

\* C16: every cleanup call issues (a) pkill TERM then KILL, (b) the DNS flush
\* and the responder reload, (c) the two route deletions, in this order and
\* all of them, whatever the outcome of the commands before.
C16_AllCommandsInOrder ==
    /\ \A i \in DOMAIN calls : calls[i].issued = C16_Order
    /\ clStep > 0 => clRun.issued = SubSeq(C16_Order, 1, clStep - 1)

\* C17: the cleanup returns ok=False only if a step run in check mode raised;
\* with its steps in non-check mode it returns ok=True for every combination
\* of command outcomes (exit 0, non-zero, timeout 124, start failure 127).
C17_OkUnlessCheckMode ==
    \A i \in DOMAIN calls :
        /\ ~DefaultCheck => (calls[i].ok /\ ~calls[i].raised)
        /\ ~calls[i].ok => DefaultCheck

C18_Step ==
    \* the buffer is never longer than 2 * keep_last_n (the lock is held only
    \* inside the append step, so every state is an observation point)
    /\ Len(lines') <= 2 * keep_last_n
    \* an append that takes the buffer over 2 * keep_last_n trims it to the
    \* keep_last_n most recent lines read, in order
    /\ (lines' # lines /\ Len(lines) + 1 > 2 * keep_last_n) =>
          LET all == Append(lines, cur')
          IN  /\ Len(lines') = keep_last_n
              /\ lines' = SubSeq(all, Len(all) - keep_last_n + 1, Len(all))

\* C18 as stated: for a watcher constructed with any keep_last_n the tail
\* buffer holds at most 2 * keep_last_n lines at every observation point, and
\* right after a trim exactly the keep_last_n most recent lines read, in order.
C18_TailBound == [][C18_Step]_vars

C19_Step ==
    /\ init_event => init_event'
    /\ exit_event => exit_event'

\* C19: the ready and exited flags are monotonic within an attempt: no step
\* of the watcher or of the supervisor clears a flag that is set, so a flag
\* the supervisor has observed true is true in every later state.
C19_FlagsMonotonic == [][C19_Step]_vars

\* The supervisor has observed ready and returned, and both flags are set.
C19_Witness ==
    /\ Returned
    /\ result.ok
    /\ obs.ready
    /\ init_event
    /\ exit_event

\* C20 as stated (safety half): exited is set only after every line the
\* watcher read has been appended to the tail buffer and tested for the
\* marker.  Reading and appending are one step, so a line read is appended.
C20_ExitedAfterEveryLineChecked == exit_event => ~unchecked

\* C21 as stated: the watcher sets ready if and only if a line it has read
\* contains the marker, at the first such line.  ready is set only while the
\* watcher handles a marker line that is already in the tail buffer, and the
\* watcher never leaves the handling of a marker line with ready unset.
C21_ReadyIffMarkerLineRead ==
    [][ /\ (~init_event /\ init_event') =>
              (cur.m /\ \E i \in DOMAIN lines : lines[i] = cur)
        /\ (cur.m /\ wPc \in {"echo", "check"} /\ wPc' \notin {"echo", "check"}) =>
              init_event' ]_vars

\* C22 as stated: when the process exits before the marker, the tail in the
\* "openvpn-exited-early" result contains the last line the process wrote
\* before it exited, whatever the interleaving of watcher and supervisor.
C22_EarlyExitTailHasLastLines ==
    (pc = "Done" /\ result.reason = ReasonOf("early") /\ nWritten >= 1) =>
        \E i \in DOMAIN result.tail : result.tail[i].id = nWritten

\* C25 as stated: in WAIT_INIT, once exited is set without ready the
\* supervisor ends the attempt instead of waiting for the init deadline, even
\* if the exit-status poll reports the process as running: it never goes back
\* to sleep for another iteration with exited set and ready unset.
C25_ExitedEndsWaitInit ==
    [][ (pc = "WaitInitDeadline" /\ pc' = "WaitInitReady") =>
            ~(exit_event /\ ~init_event) ]_vars

\* C26 as stated: the polling loop tests exit, then deadline, then success, so
\* the success test passes only in an iteration in which neither the exit
\* test nor the deadline test fires.
C26_ExitDeadlineBeforeSuccess ==
    [][ (pc = "WaitInitReady" /\ pc' = "PostInitCheck") =>
            (procState # "exited" /\ initLeft > 0) ]_vars

\* C26, amended: the loop tests ready first (C6), and a marker observed with
\* the process already exited is classified by the liveness re-check that
\* follows at once: the supervisor goes from the ready test to
\* POST_INIT_CHECK whatever the process and the deadline are, from there with
\* the process exited to the exited-after-init path, and that path returns
\* ok=False with reason "exited-after-init".
C26_SameTickExitIsExitedAfterInit ==
    [][ /\ (pc = "WaitInitReady" /\ init_event /\ pc' # pc) =>
               pc' = "PostInitCheck"
        /\ (pc = "PostInitCheck" /\ procState = "exited" /\ pc' # pc) =>
               (pc' = "Tail" /\ path' = "after_init")
        /\ (path = "after_init" /\ pc # "Done" /\ pc' = "Done") =>
               (~result'.ok /\ result'.reason = ReasonOf("after_init")) ]_vars

\* The ready test passed in an iteration in which the process had exited and
\* the deadline had passed, and the attempt returned exited-after-init.
C26_Witness ==
    /\ Returned
    /\ obs.ready
    /\ obs.sameTick
    /\ ~result.ok
    /\ result.reason = ReasonOf("after_init")

\* The positions of the events named e in the trace.
EventsAt(e) == {i \in DOMAIN trace : trace[i].e = e}

\* C30: on every path of open_vpn that returns ok=True, no stop_process call
\* and no cleanup is made between the launch and the return; the cleanup runs
\* at most once on such a path, and only before the launch.
C30_NoStopNoCleanupOnSuccess ==
    (Returned /\ result.ok) =>
        /\ EventsAt("stop_call") = {}
        /\ Cardinality(EventsAt("cleanup_begin")) <= 1
        /\ Cardinality(EventsAt("launch")) = 1
        /\ \A i \in EventsAt("cleanup_begin") \cup EventsAt("cleanup_end") :
               \A k \in EventsAt("launch") : i < k

\* A success return after the probe, with the pre-flight cleanup run once,
\* before the launch, and nothing but the launch between it and the return.
C30_Witness ==
    /\ Returned
    /\ result.ok
    /\ result.reason = "initialized+probe-ok"
    /\ pre_cleanup
    /\ [i \in DOMAIN trace |-> trace[i].e] =
           << "cleanup_begin", "cleanup_end", "launch", "return" >>

\* C28 as stated: every _run_cmd call executes its command once; in non-check
\* mode it never raises and returns (exit code, output) after a normal run,
\* 124 with the "[TIMEOUT]" marker after a timeout and 127 with the
\* "[EXCEPTION]" tag after a start failure; only in check mode does it raise,
\* on a non-zero exit, a timeout or a start failure.
C28_EveryOutcomeIsData ==
    \A i \in DOMAIN cmdLog :
        LET c == cmdLog[i]
            finished == c.pc \in {"returned", "raised"}
        IN  /\ c.execs <= 1
            /\ finished => c.execs = 1
            /\ c.pc = "raised" => (c.check /\ c.o # "exit0")
            /\ (finished /\ c.check /\ c.o # "exit0") => c.pc = "raised"
            /\ c.pc = "returned" =>
                  CASE c.o \in {"timeout", "timeout_output"} ->
                          c.rc = RcTimeout /\ c.out = "[TIMEOUT]"
                    [] c.o = "oserror" ->
                          c.rc = RcException /\ c.out = "[EXCEPTION]"
                    [] OTHER -> c.rc \in {0, 1}

\* C23: close_vpn begins with stop_process; when stop_process returns, with
\* whatever status, the cleanup begins at once, and it begins in no other
\* way; close_vpn returns after the last cleanup command, and it returns the
\* status stop_process returned.
C23_StopThenCleanupThenRc ==
    [][ /\ (pc = "Caller" /\ pc' # "Caller") => (pc' = "Stop" /\ stPc' = "poll")
        /\ (stPc # "idle" /\ stPc' = "idle") => (pc' = "Cleanup" /\ clStep' = 1)
        /\ (clStep = 0 /\ clStep' # 0) => (stPc # "idle" /\ stPc' = "idle")
        /\ (pc # "Caller" /\ pc' = "Caller") =>
              /\ pc = "Cleanup"
              /\ clStep = Len(CleanupCmds)
              /\ closeRet' = stopRet ]_vars

\* close_vpn was called on a process that had already exited with status 1,
\* ran the cleanup all the same and returned 1.
C23_Witness ==
    /\ pc = "Caller"
    /\ [i \in DOMAIN trace |-> trace[i].e] =
           << "stop_call", "stop_return", "cleanup_begin", "cleanup_end",
              "close_return" >>
    /\ ~trace[1].alive
    /\ procRc = 1
    /\ closeRet = 1

\* C29: a VpnManager holds at most one handle.  A process is launched only
\* while the manager holds none; a connect_to_vpn called with a handle held
\* begins with close_vpn on it, and the handle is dropped only when close_vpn
\* has returned, its process having exited; when open_vpn returns, the manager
\* holds what the result carries (nothing after a failure, the handle of the
\* process just launched after a success), and it gains a handle in no other
\* way; a disconnect with no handle held starts neither stop_process nor the
\* cleanup and changes nothing of the manager.
C29_OneHandle ==
    [][ /\ (pc = "Launch" /\ pc' = "WaitInitReady") =>
               (mgrProc = "None" /\ mgrPc = "open_vpn")
        /\ (mgrPc = "idle" /\ mgrPc' # "idle" /\ mgrProc # "None") =>
               (pc' = "Stop" /\ stPc' = "poll" /\ path' = "close")
        /\ (mgrProc # "None" /\ mgrProc' = "None") =>
               /\ mgrPc \in {"disconnect", "connect_disconnect"}
               /\ trace[Len(trace)].e = "close_return"
               /\ procState = "exited"
        /\ (pc = "Done" /\ pc' # "Done") =>
               /\ mgrProc' = result.proc
               /\ ~result.ok => mgrProc' = "None"
               /\ result.ok => (mgrProc' = "handle" /\ Launched)
        /\ (mgrProc = "None" /\ mgrProc' # "None") => (pc = "Done" /\ result.ok)
        /\ (mgrPc = "idle" /\ mgrPc' = "idle" /\ mgrCalls' # mgrCalls) =>
               /\ mgrProc = "None"
               /\ UNCHANGED << mgrProc, pc, stPc, clStep, trace, procVars >>
      ]_vars

\* The second connect_to_vpn closed the handle of the first, launched a new
\* process and holds its handle, the process running.
C29_Witness ==
    /\ mgrCalls = 2
    /\ mgrPc = "idle"
    /\ mgrProc = "handle"
    /\ closeRet # NoRc
    /\ result.ok
    /\ procState = "running"

\* The last signal the running stop_process tried to send.
LastSent == sent[Len(sent)]

\* C27, the steps: a group signal that fails is followed by the same signal on
\* the process alone; whether that one is delivered or not, the wait of the
\* same rung follows with its full grace period, and after it the next
\* harsher rung; stop_process never raises, and it returns only from its
\* entry poll or from a wait, with the process exited.
C27_Step ==
    /\ (stPc = "group" /\ stPc' # "group") =>
          /\ LastSent' = [sig |-> Ladder[stStage], how |-> "group",
                          ok |-> (stPc' = "wait")]
          /\ stPc' \in {"wait", "fallback"}
          /\ stStage' = stStage
    /\ (stPc = "fallback" /\ stPc' # "fallback") =>
          /\ stPc' = "wait"
          /\ stStage' = stStage
          /\ graceLeft' = GraceOf(stStage)
          /\ procState = "running" =>
                (Len(sent') = Len(sent) + 1 /\ LastSent'.sig = Ladder[stStage]
                                            /\ LastSent'.how = "proc")
    /\ (stPc = "wait" /\ stPc' = "group") =>
          (graceLeft = 0 /\ stStage' = stStage + 1)
    /\ (stPc # "idle" /\ stPc' = "idle") =>
          (stPc \in {"poll", "wait"} /\ procState = "exited")
    /\ pc = "Stop" => pc' # "Raised"

\* C27 as stated: every rung of the signal ladder is best-effort (C27_Step),
\* and, a delivered SIGKILL being eventually effective, every call of
\* stop_process eventually returns.
C27_BestEffortLadder ==
    /\ [][C27_Step]_vars
    /\ (pc = "Stop") ~> (stPc = "idle")

\* C24 as stated, its finite part: WAIT_INIT is left at the first deadline
\* test at or after the deadline and PROBE at the first loop test at or after
\* the probe deadline, an attempt never ends without a result (open_vpn does
\* not leave by an exception), and the result once returned is the only one.
C24_TerminatesWithOneResult ==
    [][ /\ (pc = "WaitInitDeadline" /\ initLeft = 0 /\ pc' # pc) => pc' = "Tail"
        /\ (pc = "ProbeTest" /\ probeLeft = 0 /\ pc' # pc) => pc' = "Tail"
        /\ pc' # "Raised"
        /\ pc = "Done" => (pc' = "Done" /\ result' = result) ]_vars

====
